---- MODULE Spec2Model ----
(***************************************************************************)
(* Federated multi-task aggregation engine: FederatedServer.step/reset,    *)
(* aggregate(), updateHyperweight(), FederatedClient.update/stopTraining   *)
(* and the UI driver (oneStep / reset) that calls them.                    *)
(*                                                                         *)
(* Tensors are abstracted to provenance values: a parameter group (the     *)
(* encoder, or one task's decoder) is a record saying which operation      *)
(* produced it (src), for an initialised group which rebuild of the model  *)
(* it belongs to (call), for which client (who), and how many training     *)
(* epochs were applied on top of it (ep).  Two groups are equal exactly    *)
(* when they were produced the same way.  SpecAgg starts aggregate() on    *)
(* its own; SpecNum follows one round with the parameters, alpha and beta  *)
(* as numbers.                                                             *)
(***************************************************************************)
EXTENDS Integers, Sequences, FiniteSets, TLC

\* ----------------------------------------------------------------- bounds
NumClients == 2
MaxCalls == 3
MaxResets == 1
MaxEpochs == 2
MaxEvents == 1

Clients == 1..NumClients
Tasks == {"A", "B"}
\* the client lists the model starts from: ordered enabled-task list per client
ClientLists == {<< <<"A">>, <<"A">> >>, << <<"A", "B">>, <<"A">> >>}
EncoderAggs == {"none", "fedavg", "conflict_averse"}
DecoderAggs == {"none", "fedavg", "cross_attention"}
CaCs == {0, 4}

\* ----------------------------------------------------------------- state
VARIABLES
  tasks,            \* FederatedClient.tasks: ordered enabled-task list per client
  model,            \* live model parameters per client
  cIsTraining,      \* FederatedClient.isTraining
  cancelRequested,  \* FederatedClient.cancelRequested
  round,            \* FederatedServer.round
  lastCkpt,         \* FederatedServer.lastCkpt
  cfg,              \* epochsPerClient, encoderAgg, decoderAgg, caC
  hw,               \* FederatedServer.hyperweight (policies, variables, _cache)
  expo,             \* server.alpha / server.beta / server.history as exposed to the UI
  live,             \* tensor groups allocated and not yet disposed
  pc,               \* position of the step() in flight
  sv,               \* locals of the step() in flight: r, client index, epochs, saveCkpt, update
  obs,              \* what the step() in flight has done so far (observation only)
  calls,            \* number of step() calls made
  resets,           \* number of server.reset() calls made
  env,              \* number of interventions made: configuration writes, stopTraining calls, faults
  past,             \* since construction or the last reset: step() calls begun, round-0 strategies
  drv,              \* UI driver: isTraining, userHasInteracted, reset() in flight
  num               \* parameter values, alpha and beta as numbers (value-level specification)

vars == <<tasks, model, cIsTraining, cancelRequested, round, lastCkpt, cfg, hw,
          expo, live, pc, sv, obs, calls, resets, env, past, drv, num>>

clientVars == <<tasks, model, cIsTraining, cancelRequested>>

\* ----------------------------------------------------------------- values
Val(s, k, w, e) == [src |-> s, call |-> k, who |-> w, ep |-> e]
Absent == Val("absent", 0, 0, 0)

InSeq(x, s) == \E j \in 1..Len(s) : s[j] = x

\* MTLModel built from the client's task configuration: one encoder and one
\* decoder per enabled task, freshly initialised.
FreshModel(c, ts, k) ==
  [enc |-> Val("init", k, c, 0),
   dec |-> [t \in Tasks |-> IF InSeq(t, ts) THEN Val("init", k, c, 0) ELSE Absent]]

\* One epoch of MTLModel.train: every parameter the client owns moves.
Trained(v) == IF v.src = "absent" THEN v ELSE [v EXCEPT !.ep = v.ep + 1]
TrainEpoch(m) == [enc |-> Trained(m.enc), dec |-> [t \in Tasks |-> Trained(m.dec[t])]]

\* exportCheckpoint + toCanonicalMap: an independent clone of every weight.
ExportAll(mdl) == [c \in Clients |-> mdl[c]]

Obj(kind, n) == [kind |-> kind, n |-> n]
NoObj == Obj("none", 0)
NoMaps == [c \in Clients |-> [enc |-> Absent, dec |-> [t \in Tasks |-> Absent]]]
NoCkpt == [held |-> FALSE, obj |-> NoObj, maps |-> NoMaps]

NoCache == [present |-> FALSE, round |-> 0, call |-> 0, reads |-> 0, K |-> 0]

\* total (client, enabled task) decoder blocks
RECURSIVE SumTasks(_, _)
SumTasks(ts, n) == IF n = 0 THEN 0 ELSE Len(ts[n]) + SumTasks(ts, n - 1)
NumBlocks(ts) == SumTasks(ts, NumClients)

\* ----------------------------------------------------------------- parameter values as numbers
\* In the value-level specification a parameter group is one number (a tensor
\* with one element), alpha and beta are fixed-point numbers in thousandths, and
\* an aggregated parameter is an exact fraction n/d.
AlphaOne == 1000
InitAlpha == 100
InitBetas == {0, 100}
\* SGD with lr = 1e-3: a gradient g moves the variable by g thousandths
LrPerMille == 1
\* how far one round of training moves a parameter
TrainSteps == {-12, 12}
\* the deltas held by the cache of the previous round
CacheDeltas == {-12, 0, 12}
EncoderAggsNum == {"none", "fedavg"}

Rat(n, d) == [n |-> n, d |-> d]
RatEq(a, b) == a.n * b.d = b.n * a.d

RECURSIVE SumSeq(_)
SumSeq(s) == IF s = << >> THEN 0 ELSE s[1] + SumSeq(Tail(s))

TaskNo(t) == IF t = "A" THEN 1 ELSE 2

\* the parameters of freshly built models: every client and task starts from
\* values of its own
NumBaseline(ts) ==
  [c \in Clients |->
     [enc |-> c,
      dec |-> [t \in Tasks |-> IF InSeq(t, ts[c]) THEN 10 * c + TaskNo(t) ELSE 0]]]

\* cloneWeightMap: the staging copy holds the same values
cloneWeightMap(m) == [enc |-> Rat(m.enc, 1), dec |-> [t \in Tasks |-> Rat(m.dec[t], 1)]]

\* a soup that keeps the first dictionary instead of averaging
meanSoupFirst(vals) == Rat(vals[1], 1)

\* meanSoup for one key: tf.stack(values).mean(0)
meanSoup(vals) == Rat(SumSeq(vals), Len(vals))

\* lines 183-189: one block per (client, enabled task), clients in order
RECURSIVE BlocksUpTo(_, _)
BlocksUpTo(ts, n) ==
  IF n = 0 THEN << >>
  ELSE BlocksUpTo(ts, n - 1) \o [j \in 1..Len(ts[n]) |-> [clientIdx |-> n, task |-> ts[n][j]]]
DecoderBlocks(ts) == BlocksUpTo(ts, NumClients)

\* an average that reads the first block only
fedavgDictsFirstBlock(blocks, save) == <<save[blocks[1].clientIdx].dec[blocks[1].task]>>

\* lines 201-206: the dictionaries averaged by decoder fedavg, one per block
fedavgDicts(blocks, save) ==
  [k \in 1..Len(blocks) |-> save[blocks[k].clientIdx].dec[blocks[k].task]]

\* the blocks of client c that carry task t
BlockOf(blocks, c, t) ==
  CHOOSE k \in 1..Len(blocks) : blocks[k].clientIdx = c /\ blocks[k].task = t

clipByValue(x, lo, hi) == IF x < lo THEN lo ELSE IF x > hi THEN hi ELSE x
\* gradient of clipByValue: passes inside [lo, hi], zero outside
clipGrad(x, lo, hi) == IF x >= lo /\ x <= hi THEN 1 ELSE 0

\* HyperweightDecoder.forward, attention of block i over the stacked deltas:
\* softmax(q.kT * scale) puts its weight on the blocks with the largest score
\* (for the deltas used here the other weights underflow to 0, and the blocks
\* with the largest score hold the same delta)
attnOut(i, deltas) ==
  LET best == CHOOSE j \in 1..Len(deltas) :
                \A k \in 1..Len(deltas) : deltas[i] * deltas[j] >= deltas[i] * deltas[k]
  IN deltas[best]

\* a forward that drops the block's own delta
HyperDecNewParamNoSelfDelta(base, selfDelta, outDelta, b) ==
  Rat(AlphaOne * base + b * outDelta, AlphaOne)

\* hyperweight.ts 165-167: newDelta = selfDelta + outDelta * beta_i; base + newDelta
HyperDecNewParam(base, selfDelta, outDelta, b) ==
  Rat(AlphaOne * (base + selfDelta) + b * outDelta, AlphaOne)

\* HyperweightDecoder.forward for one relative key
HyperDecForward(lastB, deltaB, beta) ==
  [i \in 1..Len(lastB) |->
     HyperDecNewParam(lastB[i], deltaB[i], attnOut(i, deltaB), clipByValue(beta[i], 0, AlphaOne))]

\* deltaDict(cur, last, keys): cur[k].sub(last[k]) for every key
deltaDict(cur, last) == cur - last

NoNum == [op |-> "none", last |-> << >>, cur |-> << >>, alpha |-> << >>, beta |-> << >>,
          srvAlpha |-> << >>, srvBeta |-> << >>, gd |-> 0, cd |-> 0,
          ea |-> "none", da |-> "none", model |-> << >>,
          encDiff |-> << >>, decDiff |-> << >>]

\* ----------------------------------------------------------------- Hyperweight
\* a Hyperweight value {enc?, dec?, _cache}; id names the object, N is the length
\* of alpha, K the block count of the decoder policy, encSteps/decSteps count the
\* SGD steps applied to alpha / beta, betaLayers the beta variables created lazily.
MkHyperweight(id, enc, dec, N, K) ==
  [id |-> id, enc |-> enc, dec |-> dec, N |-> N, K |-> K,
   encSteps |-> 0, decSteps |-> 0, betaLayers |-> 0, decInit |-> FALSE,
   cacheEnc |-> NoCache, cacheDec |-> NoCache]

HwObjs(h) ==
  (IF h.enc THEN {Obj("hwenc", h.id)} ELSE {}) \cup
  (IF h.dec THEN {Obj("hwdec", h.id)} ELSE {}) \cup
  (IF h.dec /\ h.betaLayers > 0 THEN {Obj("beta", h.id)} ELSE {})

\* an encoder cache whose tensors are never released
EncCacheObjsNone(c) == {}

EncCacheObjs(c) == IF c.present THEN {Obj("encCache", c.call)} ELSE {}
DecCacheObjs(c) == IF c.present THEN {Obj("decCache", c.call)} ELSE {}

\* a decoder policy sized by the client count instead of the block count
createHyperweightKPerClient(ts) == NumClients

createHyperweightK(ts) == NumBlocks(ts)

createHyperweight(id, ts) == MkHyperweight(id, TRUE, TRUE, NumClients, createHyperweightK(ts))

\* the tensors disposeHyperweight releases: a policy's cache goes with the policy
disposeHyperweight(h) ==
  (IF h.enc THEN EncCacheObjs(h.cacheEnc) \cup {Obj("hwenc", h.id)} ELSE {}) \cup
  (IF h.dec THEN DecCacheObjs(h.cacheDec) \cup {Obj("hwdec", h.id), Obj("beta", h.id)} ELSE {})

\* refreshAlphaBetaDelta: alpha / beta copied out of the variables
ExposedAlpha(h, old) == IF h.enc THEN [j \in 1..h.N |-> h.encSteps] ELSE old
ExposedBeta(h, old) == IF h.dec THEN [j \in 1..(h.betaLayers * h.K) |-> h.decSteps] ELSE old

NoExpo == [alpha |-> << >>, beta |-> << >>, hist |-> << >>, diag |-> 0]

\* ----------------------------------------------------------------- step() control flow
\* step() with the aggregate moved in front of the meta-update
StepPhasesAggregateFirst ==
  <<"train", "collect", "diagnose", "aggregate", "meta", "rotate", "notify">>

\* aggregate() loading the models before the decoder branch has run
AggPhasesLoadEarly == <<"agg_enc", "agg_load", "agg_dec">>

StepPhases == <<"train", "collect", "diagnose", "meta", "aggregate", "rotate", "notify">>
AggPhases == <<"agg_enc", "agg_dec", "agg_load">>

IndexOf(s, x) == CHOOSE j \in 1..Len(s) : s[j] = x

NextPhase(p) ==
  IF InSeq(p, AggPhases)
  THEN IF IndexOf(AggPhases, p) < Len(AggPhases)
       THEN AggPhases[IndexOf(AggPhases, p) + 1]
       ELSE IF IndexOf(StepPhases, "aggregate") < Len(StepPhases)
            THEN StepPhases[IndexOf(StepPhases, "aggregate") + 1] ELSE "done"
  ELSE IF IndexOf(StepPhases, p) < Len(StepPhases)
       THEN StepPhases[IndexOf(StepPhases, p) + 1] ELSE "done"

\* positions where step() is suspended on an await that yields to the event loop
Suspended == pc = "in_epoch"
Stepping == pc \notin {"idle", "done", "threw"}

DefaultCfg == [epochs |-> 1, enc |-> "none", dec |-> "none", caC |-> 0, log |-> FALSE]

NoSv == [r |-> 0, i |-> 0, e |-> 0, n |-> 0, save |-> NoCkpt, upd |-> NoMaps,
         aEnc |-> "none", aDec |-> "none", aC |-> 0]

NoObs == [entryLast |-> NoCkpt, entryRound |-> 0, entryCfg |-> DefaultCfg,
          trainedEp |-> [c \in Clients |-> 0], epochsArg |-> [c \in Clients |-> 0],
          gradEnc |-> 0, gradDec |-> 0, readEnc |-> NoCache, readDec |-> NoCache,
          loaded |-> {}, aggEntryEnc |-> NoCache, aggEntryDec |-> NoCache,
          failedAt |-> "none", why |-> "none", trace |-> << >>]

NoPast == [steps |-> 0, enc0 |-> "unset", dec0 |-> "unset", released |-> {}]

NoDrv == [isTraining |-> FALSE, userHasInteracted |-> FALSE, rpc |-> "none", rj |-> 0,
          rall |-> FALSE]

Visit(p) == [obs EXCEPT !.trace = Append(@, p)]
Throw(o, p, w) == [o EXCEPT !.failedAt = p, !.why = w]

\* a tensor operation of the phase rejects (shape mismatch, backend error)
Fault(p) ==
  /\ env < MaxEvents
  /\ env' = env + 1
  /\ obs' = Throw(obs, p, "error")
  /\ pc' = "threw"

\* ----------------------------------------------------------------- FederatedServer.step
\* lines 127-134: capture r, take the baseline snapshot on the first call
StepStart ==
  /\ pc = "idle"
  /\ calls < MaxCalls
  /\ calls' = calls + 1
  /\ lastCkpt' = IF lastCkpt.held THEN lastCkpt
                 ELSE [held |-> TRUE, obj |-> Obj("base", calls + 1), maps |-> ExportAll(model)]
  /\ live' = live \cup {lastCkpt'.obj}
  /\ sv' = [NoSv EXCEPT !.r = round, !.i = 1]
  /\ obs' = [NoObs EXCEPT !.entryLast = lastCkpt, !.entryRound = round, !.entryCfg = cfg]
  /\ past' = [past EXCEPT !.steps = @ + 1]
  /\ pc' = StepPhases[1]
  /\ UNCHANGED <<clientVars, round, cfg, hw, expo, resets, env, num>>

\* client.update(this.epochsPerClient) up to its first await (or its return)
TrainCall ==
  /\ pc = "train"
  /\ sv.i <= NumClients
  /\ LET c == sv.i IN
     IF cIsTraining[c]
     THEN /\ sv' = [sv EXCEPT !.i = c + 1]
          /\ obs' = [obs EXCEPT !.epochsArg[c] = cfg.epochs]
          /\ UNCHANGED <<cIsTraining, cancelRequested, pc>>
     ELSE /\ cancelRequested' = [cancelRequested EXCEPT ![c] = FALSE]
          /\ obs' = [obs EXCEPT !.epochsArg[c] = cfg.epochs]
          /\ IF cfg.epochs > 0
             THEN /\ cIsTraining' = [cIsTraining EXCEPT ![c] = TRUE]
                  /\ sv' = [sv EXCEPT !.n = cfg.epochs, !.e = 0]
                  /\ pc' = "in_epoch"
             ELSE /\ sv' = [sv EXCEPT !.i = c + 1]
                  /\ UNCHANGED <<cIsTraining, pc>>
  /\ UNCHANGED <<tasks, model, round, lastCkpt, cfg, hw, expo, live, calls, resets, env, past, drv, num>>

\* model.train resolves: the epoch's weights are in the model; the loop either
\* starts the next epoch or leaves through finally
EpochEnd ==
  /\ pc = "in_epoch"
  /\ LET c == sv.i IN
     /\ model' = [model EXCEPT ![c] = TrainEpoch(@)]
     /\ obs' = [obs EXCEPT !.trainedEp[c] = @ + 1]
     /\ IF sv.e + 1 < sv.n /\ ~cancelRequested[c]
        THEN /\ sv' = [sv EXCEPT !.e = sv.e + 1]
             /\ UNCHANGED <<cIsTraining, pc>>
        ELSE /\ sv' = [sv EXCEPT !.e = sv.e + 1, !.i = c + 1]
             /\ cIsTraining' = [cIsTraining EXCEPT ![c] = FALSE]
             /\ pc' = "train"
  /\ UNCHANGED <<tasks, cancelRequested, round, lastCkpt, cfg, hw, expo, live, calls, resets,
                 env, past, drv, num>>

\* model.train rejects: finally clears isTraining and step() rejects
EpochFails ==
  /\ pc = "in_epoch"
  /\ cIsTraining' = [cIsTraining EXCEPT ![sv.i] = FALSE]
  /\ Fault("train")
  /\ UNCHANGED <<tasks, model, cancelRequested, round, lastCkpt, cfg, hw, expo, live, sv,
                 calls, resets, past, drv, num>>

TrainDone ==
  /\ pc = "train"
  /\ sv.i > NumClients
  /\ obs' = Visit("train")
  /\ pc' = NextPhase("train")
  /\ UNCHANGED <<clientVars, round, lastCkpt, cfg, hw, expo, live, sv, calls, resets, env, past, drv, num>>

\* line 148: saveCkpt = clients.map(exportCheckpoint)
Collect ==
  /\ pc = "collect"
  /\ \/ /\ sv' = [sv EXCEPT !.save = [held |-> TRUE, obj |-> Obj("save", calls),
                                      maps |-> ExportAll(model)]]
        /\ live' = live \cup {Obj("save", calls)}
        /\ obs' = Visit("collect")
        /\ pc' = NextPhase("collect")
        /\ UNCHANGED env
     \/ /\ Fault("collect")
        /\ UNCHANGED <<sv, live>>
  /\ UNCHANGED <<clientVars, round, lastCkpt, cfg, hw, expo, calls, resets, past, drv, num>>

\* line 149: computeInterClientDiagnostics(clients, saveCkpt, this.lastCkpt!)
Diagnose ==
  /\ pc = "diagnose"
  /\ \/ /\ NumClients < 2 \/ lastCkpt.held
        /\ expo' = [expo EXCEPT !.diag = sv.r + 1]
        /\ obs' = Visit("diagnose")
        /\ pc' = NextPhase("diagnose")
        /\ UNCHANGED env
     \/ /\ NumClients >= 2 /\ ~lastCkpt.held
        /\ obs' = Throw(obs, "diagnose", "no_last")
        /\ pc' = "threw"
        /\ UNCHANGED <<expo, env>>
     \/ /\ Fault("diagnose")
        /\ UNCHANGED expo
  /\ UNCHANGED <<clientVars, round, lastCkpt, cfg, hw, live, sv, calls, resets, past, drv, num>>

\* lines 153-157: updateHyperweight when r > 0, then refreshAlphaBetaDelta and
\* maybeLogAlphaBeta
\* a meta-update that waits one round longer
MetaRunsLate(r) == r > 1

MetaRuns(r) == r > 0

Meta ==
  /\ pc = "meta"
  /\ LET encRuns == MetaRuns(sv.r) /\ hw.enc /\ hw.cacheEnc.present
         decRuns == MetaRuns(sv.r) /\ hw.dec /\ hw.cacheDec.present
         noLast == (encRuns \/ decRuns) /\ ~lastCkpt.held
         h1 == IF encRuns
               THEN [hw EXCEPT !.encSteps = @ + 1, !.cacheEnc.reads = @ + 1] ELSE hw
         \* HyperweightDecoder.forward rejects a block count other than K;
         \* tf.variableGrads rejects an empty variable list
         decThrows == decRuns /\ (hw.cacheDec.K # hw.K \/ hw.betaLayers = 0)
         h2 == IF decRuns
               THEN [h1 EXCEPT !.decSteps = @ + 1, !.cacheDec.reads = @ + 1] ELSE h1
         o1 == IF encRuns
               THEN [obs EXCEPT !.gradEnc = @ + 1, !.readEnc = hw.cacheEnc] ELSE obs
         o2 == IF decRuns
               THEN [o1 EXCEPT !.gradDec = @ + 1, !.readDec = hw.cacheDec] ELSE o1
     IN \/ /\ noLast
           /\ obs' = Throw(obs, "meta", "no_last")
           /\ pc' = "threw"
           /\ UNCHANGED <<hw, expo, env>>
        \/ /\ ~noLast /\ decThrows
           /\ hw' = h1
           /\ obs' = Throw(o1, "meta", "dec_forward")
           /\ pc' = "threw"
           /\ UNCHANGED <<expo, env>>
        \/ /\ ~noLast /\ ~decThrows
           /\ hw' = h2
           /\ expo' = [expo EXCEPT !.alpha = ExposedAlpha(h2, @),
                                   !.beta = ExposedBeta(h2, @),
                                   !.hist = IF cfg.log THEN Append(@, round) ELSE @]
           /\ obs' = [o2 EXCEPT !.trace = Append(@, "meta")]
           /\ pc' = NextPhase("meta")
           /\ UNCHANGED env
        \/ /\ MetaRuns(sv.r)
           /\ Fault("meta")
           /\ UNCHANGED <<hw, expo>>
  /\ UNCHANGED <<clientVars, round, lastCkpt, cfg, live, sv, calls, resets, past, drv, num>>

\* ----------------------------------------------------------------- aggregate()
\* lines 90-94 and the argument list of the call (server.ts 161-169)
AggBegin ==
  /\ pc = "aggregate"
  /\ sv' = [sv EXCEPT !.upd = sv.save.maps, !.aEnc = cfg.enc, !.aDec = cfg.dec,
                      !.aC = cfg.caC]
  /\ live' = live \cup {Obj("upd", calls)}
  /\ obs' = [obs EXCEPT !.aggEntryEnc = hw.cacheEnc, !.aggEntryDec = hw.cacheDec]
  /\ pc' = AggPhases[1]
  /\ UNCHANGED <<clientVars, round, lastCkpt, cfg, hw, expo, calls, resets, env, past, drv, num>>

EncUpdate(upd, src, shared) ==
  [c \in Clients |-> [upd[c] EXCEPT !.enc = Val(src, 0, IF shared THEN 0 ELSE c, 0)]]

\* lines 97-176: encoder branch
AggEncoder ==
  /\ pc = "agg_enc"
  /\ \/ /\ sv.aEnc = "none"
        /\ pc' = NextPhase("agg_enc")
        /\ UNCHANGED <<sv, hw, live, obs, env>>
     \/ /\ sv.aEnc = "fedavg"
        /\ sv' = [sv EXCEPT !.upd = EncUpdate(@, "fedavg", TRUE)]
        /\ pc' = NextPhase("agg_enc")
        /\ UNCHANGED <<hw, live, obs, env>>
     \/ /\ sv.aEnc = "conflict_averse"
        /\ lastCkpt.held
        /\ IF hw.enc
           THEN /\ live' = (live \ EncCacheObjs(hw.cacheEnc)) \cup {Obj("encCache", calls)}
                /\ hw' = [hw EXCEPT !.cacheEnc = [present |-> TRUE, round |-> sv.r,
                                                  call |-> calls, reads |-> 0, K |-> 0]]
                /\ sv' = [sv EXCEPT !.upd = EncUpdate(@, "ca_hyper", FALSE)]
           ELSE \* lines 160-168: newVec is allocated per client and never disposed
                /\ sv' = [sv EXCEPT !.upd = EncUpdate(@, "ca_global", FALSE)]
                /\ live' = live \cup {Obj("caVec", calls)}
                /\ UNCHANGED hw
        /\ pc' = NextPhase("agg_enc")
        /\ UNCHANGED <<obs, env>>
     \/ /\ sv.aEnc = "conflict_averse"
        /\ ~lastCkpt.held
        /\ obs' = Throw(obs, "agg_enc", "no_last")
        /\ pc' = "threw"
        /\ UNCHANGED <<sv, hw, live, env>>
     \/ /\ sv.aEnc # "none"
        /\ Fault("agg_enc")
        /\ UNCHANGED <<sv, hw, live>>
  /\ UNCHANGED <<clientVars, round, lastCkpt, cfg, expo, calls, resets, past, drv, num>>

DecUpdate(upd, src, shared) ==
  [c \in Clients |->
     [upd[c] EXCEPT !.dec = [t \in Tasks |->
        IF InSeq(t, tasks[c]) THEN Val(src, 0, IF shared THEN 0 ELSE c, 0)
        ELSE upd[c].dec[t]]]]

\* lines 179-291: decoder branch
AggDecoder ==
  /\ pc = "agg_dec"
  /\ LET K == NumBlocks(tasks) IN
     \/ /\ sv.aDec = "none"
        /\ pc' = NextPhase("agg_dec")
        /\ UNCHANGED <<sv, hw, live, obs, env>>
     \/ /\ sv.aDec = "fedavg"
        /\ IF K = 0
           THEN /\ obs' = Visit("aggregate")
                /\ pc' = NextPhase(AggPhases[Len(AggPhases)])
                /\ UNCHANGED sv
           ELSE /\ sv' = [sv EXCEPT !.upd = DecUpdate(@, "dec_fedavg", TRUE)]
                /\ pc' = NextPhase("agg_dec")
                /\ UNCHANGED obs
        /\ UNCHANGED <<hw, live, env>>
     \/ /\ sv.aDec = "cross_attention"
        /\ ~hw.dec
        /\ obs' = Throw(obs, "agg_dec", "no_dec_policy")
        /\ pc' = "threw"
        /\ UNCHANGED <<sv, hw, live, env>>
     \/ /\ sv.aDec = "cross_attention"
        /\ hw.dec
        /\ K > 0 /\ ~lastCkpt.held
        /\ obs' = Throw(obs, "agg_dec", "no_last")
        /\ pc' = "threw"
        /\ UNCHANGED <<sv, hw, live, env>>
     \/ /\ sv.aDec = "cross_attention"
        /\ hw.dec
        /\ ~(K > 0 /\ ~lastCkpt.held)
        /\ UNCHANGED env
        /\ LET cached == [hw EXCEPT !.cacheDec = [present |-> TRUE, round |-> sv.r,
                                                  call |-> calls, reads |-> 0, K |-> K]]
               liveC == (live \ DecCacheObjs(hw.cacheDec)) \cup {Obj("decCache", calls)}
           IN IF K # hw.K
              THEN /\ hw' = cached
                   /\ live' = liveC
                   /\ obs' = Throw(obs, "agg_dec", "K_mismatch")
                   /\ pc' = "threw"
                   /\ UNCHANGED sv
              ELSE /\ hw' = IF hw.decInit THEN cached
                            ELSE [cached EXCEPT !.decInit = TRUE,
                                                !.betaLayers = IF K > 0 THEN 1 ELSE 0]
                   /\ live' = liveC \cup HwObjs(hw')
                   /\ sv' = [sv EXCEPT !.upd = DecUpdate(@, "attn", FALSE)]
                   /\ pc' = NextPhase("agg_dec")
                   /\ UNCHANGED obs
     \/ /\ sv.aDec # "none"
        /\ Fault("agg_dec")
        /\ UNCHANGED <<sv, hw, live>>
  /\ UNCHANGED <<clientVars, round, lastCkpt, cfg, expo, calls, resets, past, drv, num>>

\* loadCheckpoint: every weight of the model takes the checkpoint's tensor of
\* that name; a name the checkpoint lacks keeps the model's current value
loadCheckpoint(m, ck) ==
  [enc |-> IF ck.enc.src # "absent" THEN ck.enc ELSE m.enc,
   dec |-> [t \in Tasks |->
             IF m.dec[t].src = "absent" THEN m.dec[t]
             ELSE IF ck.dec[t].src # "absent" THEN ck.dec[t] ELSE m.dec[t]]]

\* lines 293-305: write-back into the live models, then the staging tensors go
AggLoad ==
  /\ pc = "agg_load"
  /\ model' = [c \in Clients |-> loadCheckpoint(model[c], sv.upd[c])]
  /\ live' = live \ {Obj("upd", calls)}
  /\ obs' = [obs EXCEPT !.loaded = Clients, !.trace = Append(@, "aggregate")]
  /\ pc' = NextPhase("agg_load")
  /\ UNCHANGED <<tasks, cIsTraining, cancelRequested, round, lastCkpt, cfg, hw, expo, sv,
                 calls, resets, env, past, drv, num>>

\* ----------------------------------------------------------------- step(), after aggregate
\* a rotation that keeps the pre-aggregation snapshot as the next lastCkpt
RotateSnapshotPreAggregation(mdl, save) == save.maps

\* line 174: the new lastCkpt is exported from the clients' models
RotateSnapshot(mdl, save) == ExportAll(mdl)

\* lines 172-174
Rotate ==
  /\ pc = "rotate"
  /\ IF lastCkpt.held
     THEN /\ lastCkpt' = [held |-> TRUE, obj |-> Obj("last", calls),
                          maps |-> RotateSnapshot(model, sv.save)]
          /\ live' = ((live \ {sv.save.obj}) \ {lastCkpt.obj}) \cup {Obj("last", calls)}
          /\ obs' = Visit("rotate")
          /\ pc' = NextPhase("rotate")
     ELSE /\ live' = live \ {sv.save.obj}
          /\ obs' = Throw(obs, "rotate", "no_last")
          /\ pc' = "threw"
          /\ UNCHANGED lastCkpt
  /\ UNCHANGED <<clientVars, round, cfg, hw, expo, sv, calls, resets, env, past, drv, num>>

\* lines 177-186: the optional onAggregated callback, then this.round++
Notify ==
  /\ pc = "notify"
  /\ \/ /\ round' = round + 1
        /\ past' = IF round = 0 THEN [past EXCEPT !.enc0 = sv.aEnc, !.dec0 = sv.aDec] ELSE past
        /\ obs' = Visit("notify")
        /\ pc' = NextPhase("notify")
        /\ UNCHANGED env
     \/ /\ Fault("notify")
        /\ UNCHANGED <<round, past>>
  /\ UNCHANGED <<clientVars, lastCkpt, cfg, hw, expo, live, sv, calls, resets, drv, num>>

\* ----------------------------------------------------------------- FederatedServer.reset
ResetServerState ==
  /\ round' = 0
  /\ lastCkpt' = NoCkpt
  /\ hw' = createHyperweight(resets + 1, tasks)
  /\ live' = ((live \ (IF lastCkpt.held THEN {lastCkpt.obj} ELSE {}))
                \ disposeHyperweight(hw)) \cup HwObjs(hw')
  /\ expo' = NoExpo
  /\ past' = [NoPast EXCEPT !.released = (IF lastCkpt.held THEN {lastCkpt.obj} ELSE {})
                                          \cup disposeHyperweight(hw)]
  /\ resets' = resets + 1

\* ----------------------------------------------------------------- callers of the public interface
\* the moments at which the event loop can run another task: no step() is on
\* the stack, or the one in flight is awaiting model.train
EventLoopTurn == pc = "idle" \/ Suspended

CfgFields == {"epochs", "enc", "dec", "caC", "log"}

CfgWrites(fields) ==
  {w \in [epochs : 1..MaxEpochs, enc : EncoderAggs, dec : DecoderAggs, caC : CaCs,
          log : BOOLEAN] :
     /\ w # cfg
     /\ \E f \in fields : \A g \in CfgFields \ {f} : w[g] = cfg[g]}

\* a caller awaiting server.step(clients)
CallStep ==
  /\ StepStart
  /\ UNCHANGED drv

StepReturns ==
  /\ pc \in {"done", "threw"}
  /\ pc' = "idle"
  /\ sv' = NoSv
  /\ obs' = NoObs
  /\ UNCHANGED <<clientVars, round, lastCkpt, cfg, hw, expo, live, calls, resets, env, past, drv, num>>

\* a caller awaiting server.reset(clients) between steps
CallReset ==
  /\ pc = "idle"
  /\ resets < MaxResets
  /\ ResetServerState
  /\ UNCHANGED <<clientVars, cfg, pc, sv, obs, calls, env, drv, num>>

\* a write to one of the server's public configuration fields
ConfigWrite ==
  /\ EventLoopTurn
  /\ env < MaxEvents
  /\ cfg' \in CfgWrites(CfgFields)
  /\ env' = env + 1
  /\ UNCHANGED <<clientVars, round, lastCkpt, hw, expo, live, pc, sv, obs, calls, resets, past, drv, num>>

\* FederatedClient.stopTraining()
StopTraining ==
  /\ EventLoopTurn
  /\ env < MaxEvents
  /\ \E c \in Clients : cancelRequested' = [cancelRequested EXCEPT ![c] = TRUE]
  /\ env' = env + 1
  /\ UNCHANGED <<tasks, model, cIsTraining, round, lastCkpt, cfg, hw, expo, live, pc, sv,
                 obs, calls, resets, past, drv, num>>

InitClients ==
  /\ \E l \in ClientLists : tasks = [c \in Clients |-> l[((c - 1) % Len(l)) + 1]]
  /\ model = [c \in Clients |-> FreshModel(c, tasks[c], 0)]
  /\ cIsTraining = [c \in Clients |-> FALSE]
  /\ cancelRequested = [c \in Clients |-> FALSE]

Init ==
  /\ InitClients
  /\ round = 0
  /\ lastCkpt = NoCkpt
  /\ \E ea \in EncoderAggs, da \in DecoderAggs, ep \in 1..MaxEpochs :
       cfg = [DefaultCfg EXCEPT !.enc = ea, !.dec = da, !.epochs = ep]
  /\ \E e \in BOOLEAN, d \in BOOLEAN :
       \E k \in (IF d THEN {NumBlocks(tasks), 1} ELSE {0}) :
         hw = MkHyperweight(0, e, d, NumClients, k)
  /\ expo = NoExpo
  /\ live = HwObjs(hw)
  /\ pc = "idle"
  /\ sv = NoSv
  /\ obs = NoObs
  /\ calls = 0
  /\ resets = 0
  /\ env = 0
  /\ past = NoPast
  /\ drv = NoDrv
  /\ num = NoNum

Next ==
  \/ CallStep \/ StepReturns \/ CallReset \/ ConfigWrite \/ StopTraining
  \/ TrainCall \/ EpochEnd \/ EpochFails \/ TrainDone \/ Collect \/ Diagnose \/ Meta
  \/ AggBegin \/ AggEncoder \/ AggDecoder \/ AggLoad \/ Rotate \/ Notify

Spec == Init /\ [][Next]_vars


\* ----------------------------------------------------------------- the UI driver (client-view.ts)
\* reset() from its call to its first suspension: it spins while isTraining,
\* otherwise it is awaiting the reset of the first client it rebuilds (all
\* clients after a user interaction, the active client otherwise)
BeginReset(d) ==
  IF d.isTraining
  THEN [d EXCEPT !.rpc = "wait"]
  ELSE [d EXCEPT !.rpc = "clients", !.rj = 1, !.rall = d.userHasInteracted]

\* oneStep(): the next-step button or a player tick
OneStep ==
  /\ EventLoopTurn
  /\ IF drv.isTraining
     THEN /\ drv' = [drv EXCEPT !.userHasInteracted = TRUE]
          /\ UNCHANGED <<clientVars, round, lastCkpt, cfg, hw, expo, live, pc, sv, obs, calls,
                         resets, env, past, num>>
     ELSE /\ drv' = [drv EXCEPT !.userHasInteracted = TRUE, !.isTraining = TRUE]
          /\ StepStart

\* server.step() resolved: updateUI(), isTraining = false
OneStepReturns ==
  /\ pc = "done"
  /\ pc' = "idle"
  /\ sv' = NoSv
  /\ obs' = NoObs
  /\ drv' = [drv EXCEPT !.isTraining = FALSE]
  /\ UNCHANGED <<clientVars, round, lastCkpt, cfg, hw, expo, live, calls, resets, env, past,
                 num>>

\* server.step() rejected: oneStep() rejects at the await and the line that
\* clears isTraining is not reached
OneStepThrows ==
  /\ pc = "threw"
  /\ pc' = "idle"
  /\ sv' = NoSv
  /\ obs' = NoObs
  /\ UNCHANGED <<clientVars, round, lastCkpt, cfg, hw, expo, live, calls, resets, env, past,
                 drv, num>>

\* a control whose handler calls reset()
ResetCall ==
  /\ EventLoopTurn
  /\ drv.rpc = "none"
  /\ resets < MaxResets
  /\ drv' = BeginReset(drv)
  /\ UNCHANGED <<clientVars, round, lastCkpt, cfg, hw, expo, live, pc, sv, obs, calls, resets,
                 env, past, num>>

\* the setTimeout(0) of reset()'s wait loop fires and isTraining is clear
ResetWake ==
  /\ EventLoopTurn
  /\ drv.rpc = "wait"
  /\ ~drv.isTraining
  /\ drv' = BeginReset(drv)
  /\ UNCHANGED <<clientVars, round, lastCkpt, cfg, hw, expo, live, pc, sv, obs, calls, resets,
                 env, past, num>>

\* the awaited client.reset() resolves (the client's model is rebuilt); reset()
\* goes on to the next client or, after the last, clears userHasInteracted and
\* runs server.reset(clients)
ResetClient ==
  /\ EventLoopTurn
  /\ drv.rpc = "clients"
  /\ model' = [model EXCEPT ![drv.rj] = FreshModel(drv.rj, tasks[drv.rj], resets + 1)]
  /\ IF drv.rall /\ drv.rj < NumClients
     THEN /\ drv' = [drv EXCEPT !.rj = @ + 1]
          /\ UNCHANGED <<round, lastCkpt, hw, expo, live, resets, past>>
     ELSE /\ drv' = [drv EXCEPT !.rpc = "none", !.rj = 0, !.rall = FALSE,
                                !.userHasInteracted = IF drv.rall THEN FALSE ELSE @]
          /\ ResetServerState
  /\ UNCHANGED <<tasks, cIsTraining, cancelRequested, cfg, pc, sv, obs, calls, env, num>>

\* a server configuration control: the field is written, then reset() is called
\* when the user has interacted
AppConfigWrite ==
  /\ EventLoopTurn
  /\ env < MaxEvents
  /\ drv.userHasInteracted => (drv.rpc = "none" /\ resets < MaxResets)
  /\ cfg' \in CfgWrites({"epochs", "enc", "dec", "caC"})
  /\ env' = env + 1
  /\ drv' = IF drv.userHasInteracted THEN BeginReset(drv) ELSE drv
  /\ UNCHANGED <<clientVars, round, lastCkpt, hw, expo, live, pc, sv, obs, calls, resets, past,
                 num>>

\* the page after boot: makeGUI(), then the first reset()
InitApp ==
  /\ InitClients
  /\ round = 0
  /\ lastCkpt = NoCkpt
  /\ cfg = DefaultCfg
  /\ hw = createHyperweight(0, tasks)
  /\ expo = NoExpo
  /\ live = HwObjs(hw)
  /\ pc = "idle"
  /\ sv = NoSv
  /\ obs = NoObs
  /\ calls = 0
  /\ resets = 0
  /\ env = 0
  /\ past = NoPast
  /\ drv = NoDrv
  /\ num = NoNum

NextApp ==
  \/ OneStep \/ OneStepReturns \/ OneStepThrows \/ ResetCall \/ ResetWake \/ ResetClient
  \/ AppConfigWrite
  \/ TrainCall \/ EpochEnd \/ EpochFails \/ TrainDone \/ Collect \/ Diagnose \/ Meta
  \/ AggBegin \/ AggEncoder \/ AggDecoder \/ AggLoad \/ Rotate \/ Notify

SpecApp == InitApp /\ [][NextApp]_vars

\* ----------------------------------------------------------------- aggregate() on its own
\* the client lists aggregate() is called with: those of the application and one
\* whose clients enable no task (no decoder block)
AggClientLists == ClientLists \cup {<< << >>, << >> >>}

\* the state in which a first step() calls aggregate(): baseline held, every
\* client trained for one epoch, snapshot taken, no meta-update at round 0
InitAgg ==
  /\ \E l \in AggClientLists : tasks = [c \in Clients |-> l[((c - 1) % Len(l)) + 1]]
  /\ model = [c \in Clients |-> TrainEpoch(FreshModel(c, tasks[c], 0))]
  /\ cIsTraining = [c \in Clients |-> FALSE]
  /\ cancelRequested = [c \in Clients |-> FALSE]
  /\ round = 0
  /\ lastCkpt = [held |-> TRUE, obj |-> Obj("base", 1),
                 maps |-> ExportAll([c \in Clients |-> FreshModel(c, tasks[c], 0)])]
  /\ \E ea \in EncoderAggs, da \in DecoderAggs, cc \in CaCs :
       cfg = [DefaultCfg EXCEPT !.enc = ea, !.dec = da, !.caC = cc]
  /\ \E e \in BOOLEAN, d \in BOOLEAN :
       \E k \in (IF d THEN {NumBlocks(tasks), 1} ELSE {0}) :
         hw = MkHyperweight(0, e, d, NumClients, k)
  /\ expo = [NoExpo EXCEPT !.diag = 1, !.alpha = ExposedAlpha(hw, @), !.beta = ExposedBeta(hw, @)]
  /\ live = HwObjs(hw) \cup {Obj("base", 1), Obj("save", 1)}
  /\ pc = "aggregate"
  /\ sv = [NoSv EXCEPT !.i = NumClients + 1, !.e = 1, !.n = 1,
                       !.save = [held |-> TRUE, obj |-> Obj("save", 1), maps |-> ExportAll(model)]]
  /\ obs = [NoObs EXCEPT !.entryCfg = cfg,
                         !.trainedEp = [c \in Clients |-> 1],
                         !.epochsArg = [c \in Clients |-> 1],
                         !.trace = <<"train", "collect", "diagnose", "meta">>]
  /\ calls = 1
  /\ resets = 0
  /\ env = 0
  /\ past = [NoPast EXCEPT !.steps = 1]
  /\ drv = NoDrv
  /\ num = NoNum

NextAgg == AggBegin \/ AggEncoder \/ AggDecoder \/ AggLoad

SpecAgg == InitAgg /\ [][NextAgg]_vars

\* ----------------------------------------------------------------- one round at the level of values
\* the server at the start of a round r > 0 whose previous round aggregated
\* with conflict_averse and cross_attention: baseline values held in lastCkpt,
\* alpha and beta as constructed, a cache holding the previous deltas
InitNum ==
  /\ InitClients
  /\ round = 0
  /\ lastCkpt = NoCkpt
  /\ cfg = DefaultCfg
  /\ hw = createHyperweight(0, tasks)
  /\ expo = NoExpo
  /\ live = HwObjs(hw)
  /\ pc = "idle"
  /\ sv = NoSv
  /\ obs = NoObs
  /\ calls = 0
  /\ resets = 0
  /\ env = 0
  /\ past = NoPast
  /\ drv = NoDrv
  /\ \E b0 \in InitBetas, g \in CacheDeltas, d \in CacheDeltas :
       num = [NoNum EXCEPT !.op = "baseline",
                           !.last = NumBaseline(tasks),
                           !.cur = NumBaseline(tasks),
                           !.alpha = [c \in Clients |-> InitAlpha],
                           !.beta = [k \in 1..NumBlocks(tasks) |-> b0],
                           !.gd = g, !.cd = d]

\* client.update for every client: each parameter group moves by a step
NumTrain ==
  /\ num.op = "baseline"
  /\ \E se \in [Clients -> TrainSteps], sd \in [Clients -> [Tasks -> TrainSteps]] :
       num' = [num EXCEPT
                 !.op = "trained",
                 !.cur = [c \in Clients |->
                            [enc |-> num.last[c].enc + se[c],
                             dec |-> [t \in Tasks |->
                                        IF InSeq(t, tasks[c]) THEN num.last[c].dec[t] + sd[c][t]
                                        ELSE num.last[c].dec[t]]]]]
  /\ UNCHANGED <<clientVars, round, lastCkpt, cfg, hw, expo, live, pc, sv, obs, calls, resets,
                 env, past, drv>>

\* updateHyperweight (hyperweight.ts 288-359) followed by refreshAlphaBetaDelta
\* (server.ts 196-214): one SGD step on alpha and on beta, no projection of the
\* stored variables; the exposed arrays are copies of the stored variables
NumUpdateHyperweight ==
  /\ num.op = "trained"
  /\ LET blocks == DecoderBlocks(tasks)
         K == Len(blocks)
         \* hyperweight.ts 294-298: flattenDiff[i] = flatten(deltaDict(cur, last, encKeys))
         flattenDiff == [c \in Clients |-> deltaDict(num.cur[c].enc, num.last[c].enc)]
         \* hyperweight.ts 324-339: diffBlocks[bi][rk] = lastT.sub(curT)
         diffBlocks == [k \in 1..K |->
                          num.last[blocks[k].clientIdx].dec[blocks[k].task]
                            - num.cur[blocks[k].clientIdx].dec[blocks[k].task]]
         \* d(sum(out_i * flattenDiff_i)) / d(alpha_i)
         gradA == [c \in Clients |->
                     clipGrad(num.alpha[c], 0, AlphaOne) * num.gd * flattenDiff[c]]
         cachedDeltas == [k \in 1..K |-> num.cd]
         \* d(sum(out_i * diff_i)) / d(beta_i)
         gradB == [k \in 1..K |->
                     clipGrad(num.beta[k], 0, AlphaOne) * attnOut(k, cachedDeltas)
                       * diffBlocks[k]]
         a1 == [c \in Clients |-> num.alpha[c] - LrPerMille * gradA[c]]
         b1 == [k \in 1..K |-> num.beta[k] - LrPerMille * gradB[k]]
     IN num' = [num EXCEPT !.op = "meta", !.alpha = a1, !.beta = b1,
                           !.srvAlpha = a1, !.srvBeta = b1,
                           !.encDiff = flattenDiff, !.decDiff = diffBlocks]
  /\ UNCHANGED <<clientVars, round, lastCkpt, cfg, hw, expo, live, pc, sv, obs, calls, resets,
                 env, past, drv>>

\* aggregate() with encoder strategy none or fedavg and any decoder strategy,
\* up to and including loadCheckpoint
NumAggregate ==
  /\ num.op \in {"trained", "meta"}
  /\ \E ea \in EncoderAggsNum, da \in DecoderAggs :
       LET blocks == DecoderBlocks(tasks)
           K == Len(blocks)
           update == [c \in Clients |-> cloneWeightMap(num.cur[c])]
           encAvg == meanSoup([c \in Clients |-> num.cur[c].enc])
           u1 == IF ea = "fedavg"
                 THEN [c \in Clients |-> [update[c] EXCEPT !.enc = encAvg]]
                 ELSE update
           avg == meanSoup(fedavgDicts(blocks, num.cur))
           lastB == [k \in 1..K |-> num.last[blocks[k].clientIdx].dec[blocks[k].task]]
           deltaB == [k \in 1..K |-> num.cur[blocks[k].clientIdx].dec[blocks[k].task] - lastB[k]]
           newBlocks == HyperDecForward(lastB, deltaB, num.beta)
           u2 == [c \in Clients |->
                    [u1[c] EXCEPT !.dec =
                       [t \in Tasks |->
                          IF ~InSeq(t, tasks[c]) \/ da = "none" THEN u1[c].dec[t]
                          ELSE IF da = "fedavg" THEN avg
                          ELSE newBlocks[BlockOf(blocks, c, t)]]]]
       IN num' = [num EXCEPT !.op = "aggregated", !.ea = ea, !.da = da, !.model = u2]
  /\ UNCHANGED <<clientVars, round, lastCkpt, cfg, hw, expo, live, pc, sv, obs, calls, resets,
                 env, past, drv>>

NextNum == NumTrain \/ NumUpdateHyperweight \/ NumAggregate

SpecNum == InitNum /\ [][NextNum]_vars

\* ----------------------------------------------------------------- the utility functions on their own
\* everything but num: a page that has booted and is idle
InitIdle ==
  /\ InitClients
  /\ round = 0
  /\ lastCkpt = NoCkpt
  /\ cfg = DefaultCfg
  /\ hw = createHyperweight(0, tasks)
  /\ expo = NoExpo
  /\ live = HwObjs(hw)
  /\ pc = "idle"
  /\ sv = NoSv
  /\ obs = NoObs
  /\ calls = 0
  /\ resets = 0
  /\ env = 0
  /\ past = NoPast
  /\ drv = NoDrv

IdleVars == <<clientVars, round, lastCkpt, cfg, hw, expo, live, pc, sv, obs, calls, resets,
              env, past, drv>>

MaxListLen == 3
SeqsUpTo(S, n) == UNION {[1..k -> S] : k \in 1..n}

\* the (dataname, tasks.join("|")) of a client; task names hold no "|", so the
\* joined string is the task list
Signatures == {[dataname |-> "nyuv2", tasks |-> <<"A">>],
               [dataname |-> "nyuv2", tasks |-> <<"A", "B">>]}
HomoDeltas == {0, 6}

\* part_002 34-39: the run that starts at `start` ends before the first client
\* whose signature differs from its predecessor's
RECURSIVE RunEnd(_, _)
RunEnd(sigs, end) ==
  IF end < Len(sigs) /\ sigs[end + 1] = sigs[end] THEN RunEnd(sigs, end + 1) ELSE end

\* homoAverageEncoderDeltasInPlace: runs from the left, each replaced by its mean
RECURSIVE homoAverageFrom(_, _, _)
homoAverageFrom(deltas, sigs, start) ==
  IF start > Len(sigs) THEN deltas
  ELSE LET end == RunEnd(sigs, start)
           avg == Rat(SumSeq([j \in 1..(end - start + 1) |-> deltas[start + j - 1].n]),
                      end - start + 1)
       IN homoAverageFrom([i \in 1..Len(deltas) |->
                             IF i >= start /\ i <= end THEN avg ELSE deltas[i]],
                          sigs, end + 1)

homoAverageEncoderDeltasInPlace(deltas, sigs) ==
  homoAverageFrom([i \in 1..Len(deltas) |-> Rat(deltas[i], 1)], sigs, 1)

ApplyHomoAverage ==
  /\ num.op = "none"
  /\ \E sigs \in SeqsUpTo(Signatures, MaxListLen) :
       \E deltas \in [1..Len(sigs) -> HomoDeltas] :
          num' = [op |-> "homo", sigs |-> sigs, deltas |-> deltas,
                  out |-> homoAverageEncoderDeltasInPlace(deltas, sigs)]
  /\ UNCHANGED IdleVars

\* key strings as sequences of characters: a letter, the underscore, a digit
KeyChars == {"k", "_", "1"}
MaxKeyLen == 5
IsDigit(ch) == ch = "1"

\* the number of digits at the end of the string
RECURSIVE TrailingDigits(_)
TrailingDigits(k) ==
  IF k # << >> /\ IsDigit(k[Len(k)]) THEN 1 + TrailingDigits(SubSeq(k, 1, Len(k) - 1)) ELSE 0

\* canonicalKey: k.replace(/_\d+$/, ""), the one match of "_" followed by
\* digits up to the end of the string removed
canonicalKey(k) ==
  LET m == TrailingDigits(k)
  IN IF m >= 1 /\ Len(k) > m /\ k[Len(k) - m] = "_" THEN SubSeq(k, 1, Len(k) - m - 1) ELSE k

ApplyCanonicalKey ==
  /\ num.op = "none"
  /\ \E k \in SeqsUpTo(KeyChars, MaxKeyLen) :
       num' = [op |-> "canonicalKey", k |-> k, out |-> canonicalKey(k),
               twice |-> canonicalKey(canonicalKey(k))]
  /\ UNCHANGED IdleVars

\* vectors for projectToSimplex: components are multiples of 1/VecGrid; all
\* values are held as integers in units of 1/(VecGrid * VecScale), VecScale a
\* common multiple of the divisors 1..MaxDim, so the divisions by
\* (i + 1) and (rho + 1) are exact
MaxDim == 3
VecGrid == 2
RECURSIVE Factorial(_)
Factorial(n) == IF n <= 1 THEN 1 ELSE n * Factorial(n - 1)
VecScale == Factorial(MaxDim)
VecOne == VecGrid * VecScale
VecVals == {-2, -1, 0, 1, 2, 3}

\* Array.from(v).sort((a, b) => b - a)
RECURSIVE InsertDesc(_, _)
InsertDesc(x, s) ==
  IF s = << >> THEN <<x>>
  ELSE IF x >= s[1] THEN <<x>> \o s ELSE <<s[1]>> \o InsertDesc(x, Tail(s))
RECURSIVE SortDesc(_)
SortDesc(v) == IF v = << >> THEN << >> ELSE InsertDesc(v[1], SortDesc(Tail(v)))

Prefix(u, i) == SumSeq(SubSeq(u, 1, i))

\* a projection that never drops a component
projectRhoAll(u) == Len(u)

\* part_001 126-131: rho is the last index i with u[i] - (cssv - 1) / (i + 1) > 0
projectRho(u) ==
  LET hits == {i \in 1..Len(u) : u[i] - (Prefix(u, i) - VecOne) \div i > 0}
  IN IF hits = {} THEN 0 ELSE CHOOSE i \in hits : \A j \in hits : j <= i

\* projectToSimplex, for a vector with at least one component
projectToSimplex(v) ==
  LET u == SortDesc(v)
      rho == projectRho(u)
      theta == (Prefix(u, rho) - VecOne) \div rho
  IN [i \in 1..Len(v) |-> IF v[i] - theta > 0 THEN v[i] - theta ELSE 0]

ApplyProjectToSimplex ==
  /\ num.op = "none"
  /\ \E a \in SeqsUpTo(VecVals, MaxDim) :
       LET v == [i \in 1..Len(a) |-> a[i] * VecScale]
       IN num' = [op |-> "project", v |-> v, out |-> projectToSimplex(v)]
  /\ UNCHANGED IdleVars

\* weight maps for pick: the entries are named by a subset of MapKeys
MapKeys == {"enc/w", "A_dec/w", "B_dec/w"}
Undefined == "undefined"

\* pick: for (const k of keys) out[k] = m[k]; reading a property the object
\* lacks gives undefined, and the assignment creates the entry
pick(m, keys) == [k \in keys |-> IF k \in DOMAIN m THEN m[k] ELSE Undefined]

ApplyPick ==
  /\ num.op = "none"
  /\ \E have \in SUBSET MapKeys, keys \in SUBSET MapKeys :
       LET m == [k \in have |-> "tensor"]
       IN num' = [op |-> "pick", m |-> m, keys |-> keys, out |-> pick(m, keys)]
  /\ UNCHANGED IdleVars

\* ----- solveSimplexProjectedGD
\* Float64 values are held as fractions in lowest terms (denominator positive)
Abs(x) == IF x < 0 THEN -x ELSE x
RECURSIVE GCD(_, _)
GCD(a, b) == IF b = 0 THEN a ELSE GCD(b, a % b)
RatNorm(n, d) == LET g == GCD(Abs(n), d) IN Rat(n \div g, d \div g)
RatAdd(a, b) ==
  LET g == GCD(a.d, b.d)
  IN RatNorm(a.n * (b.d \div g) + b.n * (a.d \div g), (a.d \div g) * b.d)
RatNeg(a) == Rat(-a.n, a.d)
RatSub(a, b) == RatAdd(a, RatNeg(b))
RatMul(a, b) ==
  LET g1 == GCD(Abs(a.n), b.d)
      g2 == GCD(Abs(b.n), a.d)
  IN RatNorm((a.n \div g1) * (b.n \div g2), (a.d \div g2) * (b.d \div g1))
RatLess(a, b) ==
  LET g == GCD(a.d, b.d)
  IN a.n * (b.d \div g) < b.n * (a.d \div g)
RatAbs(a) == Rat(Abs(a.n), a.d)
RatMin(a, b) == IF RatLess(b, a) THEN b ELSE a
RECURSIVE RatSum(_)
RatSum(s) == IF s = << >> THEN Rat(0, 1) ELSE RatAdd(s[1], RatSum(Tail(s)))

\* projectToSimplex on fractions: the same computation as above, the constant
\* 1 being Rat(1, 1)
RECURSIVE InsertDescQ(_, _)
InsertDescQ(x, s) ==
  IF s = << >> THEN <<x>>
  ELSE IF ~RatLess(x, s[1]) THEN <<x>> \o s ELSE <<s[1]>> \o InsertDescQ(x, Tail(s))
RECURSIVE SortDescQ(_)
SortDescQ(v) == IF v = << >> THEN << >> ELSE InsertDescQ(v[1], SortDescQ(Tail(v)))
ThetaQ(u, i) == RatMul(RatSub(RatSum(SubSeq(u, 1, i)), Rat(1, 1)), Rat(1, i))
projectToSimplexQ(v) ==
  LET u == SortDescQ(v)
      hits == {i \in 1..Len(u) : RatLess(Rat(0, 1), RatSub(u[i], ThetaQ(u, i)))}
      rho == IF hits = {} THEN 0 ELSE CHOOSE i \in hits : \A j \in hits : j <= i
      theta == ThetaQ(u, rho)
  IN [i \in 1..Len(v) |->
        IF RatLess(Rat(0, 1), RatSub(v[i], theta)) THEN RatSub(v[i], theta) ELSE Rat(0, 1)]

\* part_001 138-158
matVec(A, x) == [i \in 1..Len(A) |-> RatSum([j \in 1..Len(x) |-> RatMul(Rat(A[i][j], 1), x[j])])]
dotArr(a, b) == RatSum([i \in 1..Len(a) |-> RatMul(a[i], b[i])])

\* part_002 58-62: A is the Gram matrix of the clients' flattened deltas, and
\* c = alpha * g0Norm + EPS with alpha = caC, 0 unless configured (server.ts
\* 66), so c = EPS = 1e-8. The term c * sqrt(quadForm(A, x) + EPS) and its
\* gradient c * Ax / denom are of that order on the matrices below, which is
\* under every difference the properties look at, and are left out; the
\* operators keep the parameter.
GramMatrix(deltas) ==
  [i \in 1..Len(deltas) |-> [j \in 1..Len(deltas) |->
     SumSeq([k \in 1..Len(deltas[i]) |-> deltas[i][k] * deltas[j][k]])]]
SolverDeltaLists == {<< <<2, 2>>, <<-3, -3>> >>,
                     << <<2, 2>>, <<2, 2>> >>,
                     << <<-3, -3>>, <<1, 0>> >>,
                     << <<1, 0>>, <<0, 1>> >>,
                     << <<-3>>, <<-3>>, <<2>> >>}
SolverC == 0
objCA(A, b, c, x) == dotArr(x, matVec(A, b))
gradCA(A, b, c, x) == matVec(A, b)

MaxIters == 3
UniformVec(n) == [i \in 1..n |-> Rat(1, n)]

\* part_001 175-181: x is a new array filled with 1 / n; `const b = x` names
\* the same array a second time. heap maps array references to contents.
SolveStart ==
  /\ num.op = "none"
  /\ \E deltas \in SolverDeltaLists :
       LET A == GramMatrix(deltas)
           x0 == UniformVec(Len(A))
       IN num' = [op |-> "solve", A |-> A, c |-> SolverC, heap |-> <<x0>>, x |-> 1, b |-> 1,
                  fx |-> objCA(A, x0, SolverC, x0), step |-> Rat(1, 10), it |-> 0,
                  pc |-> "loop", accepted |-> <<x0>>, rejected |-> 0]
  /\ UNCHANGED IdleVars

\* one pass of the loop body from the current arrays
SolverXNew ==
  LET x == num.heap[num.x]
      g == gradCA(num.A, num.heap[num.b], num.c, x)
      z == [i \in 1..Len(x) |-> RatSub(x[i], RatMul(num.step, g[i]))]
  IN projectToSimplexQ(z)
SolverFNew == objCA(num.A, num.heap[num.b], num.c, SolverXNew)
\* the tests fNew > fx + 1e-12 and diff1 < tol compare fractions that are
\* either equal or further apart than the tolerance; step < 1e-12 needs more
\* than thirty halvings of 0.1 and is not reached within MaxIters
SolverRejects == RatLess(num.fx, SolverFNew)

\* part_001 183: the loop is left when it reaches maxIters
SolverLoopEnds(it) == IF it >= MaxIters THEN "returned" ELSE "loop"

\* part_001 189-193: the step is halved and the iteration is used up
SolveRejected ==
  /\ num.op = "solve" /\ num.pc = "loop"
  /\ SolverRejects
  /\ num' = [num EXCEPT !.step = RatMul(num.step, Rat(1, 2)),
                        !.it = num.it + 1,
                        !.rejected = num.rejected + 1,
                        !.pc = SolverLoopEnds(num.it + 1)]
  /\ UNCHANGED IdleVars

\* part_001 194-196: x.set(xNew) writes into the array x refers to
SolveAccepted ==
  /\ num.op = "solve" /\ num.pc = "loop"
  /\ ~SolverRejects
  /\ LET xNew == SolverXNew
         x == num.heap[num.x]
         diff1 == RatSum([i \in 1..Len(x) |-> RatAbs(RatSub(xNew[i], x[i]))])
     IN num' = [num EXCEPT !.heap = [num.heap EXCEPT ![num.x] = xNew],
                           !.fx = SolverFNew,
                           !.step = RatMin(RatMul(num.step, Rat(21, 20)), Rat(1, 1)),
                           !.it = num.it + 1,
                           !.accepted = Append(num.accepted, xNew),
                           !.pc = IF diff1 = Rat(0, 1) THEN "returned"
                                  ELSE SolverLoopEnds(num.it + 1)]
  /\ UNCHANGED IdleVars

InitUtil ==
  /\ InitIdle
  /\ num = [op |-> "none"]

NextUtil ==
  \/ ApplyHomoAverage \/ ApplyCanonicalKey \/ ApplyProjectToSimplex \/ ApplyPick
  \/ SolveStart \/ SolveRejected \/ SolveAccepted

SpecUtil == InitUtil /\ [][NextUtil]_vars

\* ----------------------------------------------------------------- the Player (client-view.ts 1587-1655)
\* drv holds the Player: its fields, the d3 timers that are still scheduled
\* (each named by the localTimerIndex it was started with), the driver.step()
\* calls that have not settled, and whether a step has returned false since the
\* last play(). The onPlayPause callback only redraws the button.
MaxTimerIndex == 4
Drivers == {"player", "experiment"}
StepOutcomes == {"true", "false", "throws"}

NoPlayer == [timerIndex |-> 0, isPlaying |-> FALSE, stepping |-> FALSE, driver |-> "player",
             timers |-> {}, inflight |-> << >>, halted |-> FALSE, falses |-> 0]

PlayerIdleVars == <<clientVars, round, lastCkpt, cfg, hw, expo, live, pc, sv, obs, calls, resets,
                    env, past, num>>

\* pause(): timerIndex++, isPlaying = false
pause(p) == [p EXCEPT !.timerIndex = @ + 1, !.isPlaying = FALSE]

\* play(): pause(), isPlaying = true, start(timerIndex)
play(p) ==
  LET q == pause(p)
  IN [q EXCEPT !.isPlaying = TRUE, !.timers = @ \cup {q.timerIndex}, !.halted = FALSE]

Play ==
  /\ drv.timerIndex < MaxTimerIndex
  /\ drv' = play(drv)
  /\ UNCHANGED PlayerIdleVars

Pause ==
  /\ drv.timerIndex < MaxTimerIndex
  /\ drv' = pause(drv)
  /\ UNCHANGED PlayerIdleVars

PlayOrPause ==
  /\ drv.timerIndex < MaxTimerIndex
  /\ drv' = IF drv.isPlaying THEN pause([drv EXCEPT !.isPlaying = FALSE])
            ELSE play([drv EXCEPT !.isPlaying = TRUE])
  /\ UNCHANGED PlayerIdleVars

SetDriver ==
  /\ \E d \in Drivers : drv' = [drv EXCEPT !.driver = d]
  /\ UNCHANGED PlayerIdleVars

\* the tests at the head of the timer callback
TimerCancelled(p, localTimerIndex) == localTimerIndex < p.timerIndex
StepOverlapsNever(p) == FALSE
StepOverlaps(p) == p.stepping

\* a tick of a timer whose index is old: the callback returns true and starts
\* nothing; whether d3 then unschedules the timer depends on its version
TimerTickCancelled ==
  /\ \E l \in drv.timers :
       /\ TimerCancelled(drv, l)
       /\ drv' = [drv EXCEPT !.timers = @ \ {l}]
  /\ UNCHANGED PlayerIdleVars

\* a tick of a current timer with no step in flight: stepping = true and
\* driver.step() is called (a tick while stepping returns false and changes
\* nothing)
TimerTickStarts ==
  /\ \E l \in drv.timers :
       /\ ~TimerCancelled(drv, l)
       /\ ~StepOverlaps(drv)
       /\ drv' = [drv EXCEPT !.stepping = TRUE,
                             !.inflight = Append(@, [driver |-> drv.driver, timer |-> l,
                                                     index |-> drv.timerIndex,
                                                     halted |-> drv.halted])]
  /\ UNCHANGED PlayerIdleVars

RemoveAt(s, i) == SubSeq(s, 1, i - 1) \o SubSeq(s, i + 1, Len(s))

\* driver.step() settles: pause() when it returned false, then the finally
\* block clears stepping
StepSettles ==
  /\ \E i \in 1..Len(drv.inflight), out \in StepOutcomes :
       LET p == [drv EXCEPT !.inflight = RemoveAt(@, i), !.stepping = FALSE]
       IN IF out = "false"
          THEN /\ drv.timerIndex < MaxTimerIndex
               /\ drv' = [pause(p) EXCEPT !.halted = TRUE, !.falses = 1]
          ELSE drv' = p
  /\ UNCHANGED PlayerIdleVars

InitPlayer ==
  /\ InitClients
  /\ round = 0
  /\ lastCkpt = NoCkpt
  /\ cfg = DefaultCfg
  /\ hw = createHyperweight(0, tasks)
  /\ expo = NoExpo
  /\ live = HwObjs(hw)
  /\ pc = "idle"
  /\ sv = NoSv
  /\ obs = NoObs
  /\ calls = 0
  /\ resets = 0
  /\ env = 0
  /\ past = NoPast
  /\ num = NoNum
  /\ drv = NoPlayer

NextPlayer ==
  \/ Play \/ Pause \/ PlayOrPause \/ SetDriver
  \/ TimerTickCancelled \/ TimerTickStarts \/ StepSettles

SpecPlayer == InitPlayer /\ [][NextPlayer]_vars

\* ----------------------------------------------------------------- the ExperimentDriver (drivers/experiment.ts)
\* drv holds the experiment run and its driver: per experiment the status, the
\* number of entries of log.rounds, plan.rounds and the status it was started
\* from; the driver's fields; where the step() in flight is suspended (at the
\* reset of startExperiment or at oneStep) with its local exp and before; what
\* the last step() returned; whether the reset() of the reset button is still
\* waiting. round is server.round. The Player calls step() only while no
\* step() is in flight.
NumExperiments == 2
MaxPlanRounds == 2
Experiments == 1..NumExperiments
OneStepOutcomes == {"advanced", "same", "throws"}

NewExperiment(rounds) ==
  [status |-> "Not started", logged |-> 0, rounds |-> rounds, from |-> "none"]

NoExperimentDriver(plans) ==
  [experiments |-> [e \in Experiments |-> NewExperiment(plans[e])],
   expIdx |-> 0, active |-> 0, roundsLeft |-> 0, finished |-> FALSE,
   call |-> "none", exp |-> 0, before |-> 0, ret |-> "none",
   calledOver |-> FALSE, rpc |-> "none", clicks |-> 0]

ExperimentIdleVars == <<clientVars, lastCkpt, cfg, hw, expo, live, pc, sv, obs, calls, resets,
                        env, past, num>>

\* the run is over: the last experiment is completed or one has failed
RunOver(d) ==
  \/ d.experiments[NumExperiments].status = "Completed"
  \/ \E e \in Experiments : d.experiments[e].status = "Failed"

\* finishExperiment: the status (the footer is not modelled)
finishExperiment(d, e) == [d EXCEPT !.experiments[e].status = "Completed"]

\* step() lines 227-228 and 232: exp = this.active, before = server.round, then
\* the await of oneStep
EnterRound(d, r) == [d EXCEPT !.call = "round", !.exp = d.active, !.before = r]

\* step() from its call to its first await or its early return
ExpStepCall ==
  /\ drv.call = "none"
  /\ LET d0 == [drv EXCEPT !.calledOver = RunOver(drv)]
     IN IF d0.finished
        THEN drv' = [d0 EXCEPT !.ret = "false"]
        ELSE IF d0.active = 0 \/ d0.roundsLeft <= 0
        THEN LET d1 == IF d0.active # 0 /\ d0.roundsLeft <= 0
                       THEN [finishExperiment(d0, d0.active) EXCEPT !.active = 0]
                       ELSE d0
             IN IF d1.expIdx >= NumExperiments
                THEN drv' = [d1 EXCEPT !.finished = TRUE, !.ret = "false"]
                ELSE \* startExperiment up to `await this.deps.reset(false)`
                     drv' = [d1 EXCEPT !.experiments[d1.expIdx + 1].from =
                                          d1.experiments[d1.expIdx + 1].status,
                                       !.experiments[d1.expIdx + 1].status = "In progress",
                                       !.call = "start", !.exp = d1.expIdx + 1]
        ELSE drv' = EnterRound(d0, round)
  /\ UNCHANGED round
  /\ UNCHANGED ExperimentIdleVars

\* deps.reset(false) resolved (server.reset has set round to 0): the rest of
\* startExperiment, expIdx += 1, then on to the await of oneStep
ExpStartResumes ==
  /\ drv.call = "start"
  /\ round' = 0
  /\ drv' = EnterRound([drv EXCEPT !.experiments[drv.exp].logged = 0,
                                   !.active = drv.exp,
                                   !.roundsLeft = drv.experiments[drv.exp].rounds,
                                   !.expIdx = @ + 1], 0)
  /\ UNCHANGED ExperimentIdleVars

\* oneStep() settled: it ran a round, or returned at once because isTraining
\* was set (client-view.ts 1318-1320), or server.step() threw
ExpRoundResumes ==
  /\ drv.call = "round"
  /\ \E out \in OneStepOutcomes :
       /\ round' = IF out = "advanced" THEN round + 1 ELSE round
       /\ IF out = "throws"
          THEN drv' = [drv EXCEPT !.experiments[drv.exp].status = "Failed",
                                  !.finished = TRUE, !.call = "none", !.ret = "false"]
          ELSE LET d1 == IF round' # drv.before
                         THEN [drv EXCEPT !.experiments[drv.exp].logged = @ + 1,
                                          !.roundsLeft = @ - 1]
                         ELSE drv
                   d2 == IF d1.roundsLeft <= 0
                         THEN [finishExperiment(d1, drv.exp) EXCEPT !.active = 0]
                         ELSE d1
               IN drv' = [d2 EXCEPT !.call = "none", !.ret = "true"]
  /\ UNCHANGED ExperimentIdleVars

\* the reset button in experiment mode (client-view.ts 1177-1184):
\* experimentRun.reset(), experimentDriver.reset(), then reset(), which waits
\* while isTraining
ExpResetButton ==
  /\ drv.rpc = "none"
  /\ drv.clicks < MaxResets
  /\ drv' = [drv EXCEPT
       !.experiments = [e \in Experiments |-> NewExperiment(drv.experiments[e].rounds)],
       !.expIdx = 0, !.active = 0, !.roundsLeft = 0, !.finished = FALSE,
       !.rpc = "wait", !.clicks = @ + 1]
  /\ UNCHANGED round
  /\ UNCHANGED ExperimentIdleVars

\* that reset() gets past its wait loop, no oneStep() being in flight, and
\* resets the server
ExpResetCompletes ==
  /\ drv.rpc = "wait"
  /\ drv.call # "round"
  /\ round' = 0
  /\ drv' = [drv EXCEPT !.rpc = "none"]
  /\ UNCHANGED ExperimentIdleVars

InitExperiment ==
  /\ InitClients
  /\ round = 0
  /\ lastCkpt = NoCkpt
  /\ cfg = DefaultCfg
  /\ hw = createHyperweight(0, tasks)
  /\ expo = NoExpo
  /\ live = HwObjs(hw)
  /\ pc = "idle"
  /\ sv = NoSv
  /\ obs = NoObs
  /\ calls = 0
  /\ resets = 0
  /\ env = 0
  /\ past = NoPast
  /\ num = NoNum
  /\ \E plans \in [Experiments -> 1..MaxPlanRounds] : drv = NoExperimentDriver(plans)

NextExperiment ==
  \/ ExpStepCall \/ ExpStartResumes \/ ExpRoundResumes \/ ExpResetButton \/ ExpResetCompletes

SpecExperiment == InitExperiment /\ [][NextExperiment]_vars

\* ----------------------------------------------------------------- properties of step()
BeforeRotation == {"train", "collect", "diagnose", "meta", "agg_enc", "agg_dec"}
InAggregate == {"agg_enc", "agg_dec", "agg_load"}

IsPrefix(s, t) == Len(s) <= Len(t) /\ \A j \in 1..Len(s) : s[j] = t[j]

\* C1: a step() that fails in training, snapshot, diagnostics, meta-update or
\* aggregate exits with lastCkpt and round exactly as they were when it was called
C1_FailedStepKeepsCheckpoints ==
  (pc = "threw" /\ obs.failedAt \in BeforeRotation) =>
     (lastCkpt = obs.entryLast /\ round = obs.entryRound)

\* C2: when aggregate() fails in its encoder or decoder branch, loadCheckpoint has
\* run for no client, round is not advanced, and every client model still holds
\* the parameters it had after this round's training
C2_AggregateAllOrNothing ==
  (pc = "threw" /\ obs.failedAt \in {"agg_enc", "agg_dec"}) =>
     /\ obs.loaded = {}
     /\ round = obs.entryRound
     /\ \A c \in Clients : model[c] = sv.save.maps[c]

\* the decoder branch fails after the encoder branch has staged aggregated values
C2_Witness ==
  /\ pc = "threw"
  /\ obs.failedAt = "agg_dec"
  /\ \E c \in Clients : sv.upd[c].enc # sv.save.maps[c].enc /\ model[c].enc.ep > 0

\* C3: when cross_attention is selected and no decoder policy is attached, the
\* error is raised with both cache entries as they were before the call and no
\* client model changed, whatever the encoder strategy
C3_MissingPolicyFailsBeforeMutation ==
  (pc = "threw" /\ obs.why = "no_dec_policy") =>
     /\ hw.cacheEnc = obs.aggEntryEnc
     /\ hw.cacheDec = obs.aggEntryDec
     /\ \A c \in Clients : model[c] = sv.save.maps[c]

\* C4: a cache captured in round r is read only by the meta-update of round r+1:
\* it is read at most once, and a meta-update reads no cache older than the
\* preceding round's
C4_CacheReadOnceByNextRound ==
  /\ hw.cacheEnc.reads <= 1
  /\ hw.cacheDec.reads <= 1
  /\ obs.readEnc.present => obs.readEnc.round + 1 = sv.r
  /\ obs.readDec.present => obs.readDec.round + 1 = sv.r

\* C5: a step() of round 0 applies no gradient step to alpha or beta; a step() of
\* round 1 that gets through its meta-update has applied exactly one gradient
\* step to each attached policy whose strategy round 0 aggregated with
C5_MetaUpdateCount ==
  /\ round = 0 => (hw.encSteps = 0 /\ hw.decSteps = 0)
  /\ sv.r = 0 => (obs.gradEnc = 0 /\ obs.gradDec = 0)
  /\ (sv.r = 1 /\ InSeq("meta", obs.trace)) =>
        /\ (hw.enc /\ past.enc0 = "conflict_averse") => obs.gradEnc = 1
        /\ (hw.dec /\ past.dec0 = "cross_attention") => obs.gradDec = 1
        /\ obs.gradEnc <= 1
        /\ obs.gradDec <= 1

\* a round-1 step has updated both policies
C5_Witness ==
  /\ sv.r = 1
  /\ InSeq("meta", obs.trace)
  /\ past.enc0 = "conflict_averse" /\ past.dec0 = "cross_attention"
  /\ obs.gradEnc = 1 /\ obs.gradDec = 1
  /\ hw.encSteps = 1 /\ hw.decSteps = 1

PhaseOrder == <<"train", "collect", "diagnose", "meta", "aggregate", "rotate", "notify">>

\* C6: the phases of a step() occur in the order train, snapshot, diagnostics,
\* meta-update (only when round > 0), aggregate, rotate, none skipped or repeated,
\* and the meta-update is over before this step's aggregate replaces a cache
C6_PhaseOrder ==
  /\ IsPrefix(obs.trace, PhaseOrder)
  /\ pc = "done" => obs.trace = PhaseOrder
  /\ Len(obs.trace) >= 1 => \A c \in Clients : obs.epochsArg[c] > 0
  /\ (obs.gradEnc > 0 \/ obs.gradDec > 0) => sv.r > 0
  /\ obs.readEnc.present => obs.readEnc.call < calls
  /\ obs.readDec.present => obs.readDec.call < calls
  /\ (pc # "idle" /\ hw.cacheEnc.present /\ hw.cacheEnc.call = calls) => InSeq("meta", obs.trace)
  /\ (pc # "idle" /\ hw.cacheDec.present /\ hw.cacheDec.call = calls) => InSeq("meta", obs.trace)

\* a step of a later round finished after its meta-update read the previous
\* cache and its aggregate captured a new one
C6_Witness ==
  /\ pc = "done"
  /\ sv.r > 0
  /\ obs.readEnc.present
  /\ hw.cacheEnc.call = calls

\* C7: whenever a step() is in aggregate(), every client has run exactly the
\* number of epochs its update() was called with
C7_FullEpochsBeforeAggregation ==
  pc \in InAggregate => \A c \in Clients : obs.trainedEp[c] = obs.epochsArg[c]

\* C8: the epochs passed to every client's update() and the strategies and
\* coefficient passed to aggregate() are the values the fields had when step()
\* was called
C8_ConfigReadAtStepStart ==
  /\ \A c \in Clients : obs.epochsArg[c] \in {0, obs.entryCfg.epochs}
  /\ pc \in InAggregate =>
        /\ sv.aEnc = obs.entryCfg.enc
        /\ sv.aDec = obs.entryCfg.dec
        /\ sv.aC = obs.entryCfg.caC

\* C9: while a server.step() is in progress no client or server reset executes,
\* and while reset() is past its wait loop no server.step() is in progress
C9_StepAndResetExclusive == ~(Stepping /\ drv.rpc = "clients")

CheckpointKinds == {"base", "last"}
CacheKinds == {"encCache", "decCache"}
PolicyKinds == {"hwenc", "hwdec", "beta"}

\* C10: after reset(clients) and before the next step(): round is 0, no
\* checkpoint is held, nothing of the old Hyperweight or its caches is still
\* allocated, the new Hyperweight has one alpha per client, K = the enabled tasks
\* of all clients, and an empty cache, and alpha, beta and history are empty
C10_ResetPostState ==
  (resets > 0 /\ past.steps = 0) =>
     /\ round = 0
     /\ lastCkpt = NoCkpt
     /\ \A o \in live : /\ o.kind \notin CheckpointKinds \cup CacheKinds
                        /\ o.kind \in PolicyKinds => o.n = hw.id
     /\ past.released \cap live = {}
     /\ hw.enc /\ hw.dec
     /\ hw.N = Cardinality(Clients)
     /\ hw.K = NumBlocks(tasks)
     /\ hw.cacheEnc = NoCache /\ hw.cacheDec = NoCache
     /\ hw.encSteps = 0 /\ hw.decSteps = 0 /\ hw.betaLayers = 0
     /\ expo.alpha = << >> /\ expo.beta = << >> /\ expo.hist = << >>

\* a reset that released a held checkpoint and a Hyperweight with both caches
C10_Witness ==
  /\ resets > 0
  /\ past.steps = 0
  /\ \E o \in past.released : o.kind = "encCache"
  /\ \E o \in past.released : o.kind = "decCache"
  /\ \E o \in past.released : o.kind = "last"
  /\ hw.K = 3

\* ----------------------------------------------------------------- checkpoints and tensors
\* C11: when a step() has returned, lastCkpt is a new snapshot of every client's
\* model as aggregation left it, the lastCkpt the step started from is released,
\* and round is one more than at entry; between steps the only checkpoint
\* allocated on behalf of the server is lastCkpt
C11_RotationAfterStep ==
  /\ pc = "done" =>
        /\ lastCkpt.held
        /\ lastCkpt.obj = Obj("last", calls)
        /\ lastCkpt.obj \in live
        /\ lastCkpt.maps = ExportAll(model)
        /\ obs.entryLast.held => (obs.entryLast.obj # lastCkpt.obj /\ obs.entryLast.obj \notin live)
        /\ Obj("base", calls) \notin live
        /\ round = obs.entryRound + 1
  /\ (pc \in {"idle", "done"} /\ lastCkpt.held) =>
        {o \in live : o.kind \in CheckpointKinds} = {lastCkpt.obj}

\* a second step returned after an aggregation that changed the models
C11_Witness ==
  /\ pc = "done"
  /\ obs.entryLast.held
  /\ obs.entryLast.obj.kind = "last"
  /\ \E c \in Clients : model[c] # sv.save.maps[c]

\* C12: saveCkpt does not outlive the step() that took it: when step() exits,
\* by returning or by failing in the meta-update or in aggregate() after the
\* snapshot, the snapshot's tensors are released
C12_SaveCkptReleasedOnExit ==
  (sv.save.held /\ (pc = "done" \/ (pc = "threw" /\ obs.failedAt \in {"meta", "agg_enc", "agg_dec"})))
     => sv.save.obj \notin live

\* tensors aggregate() allocates for its own use: the staging copy `update` and
\* the flattened encoder vectors
StagingKinds == {"upd", "caVec"}

\* C13: when aggregate() has returned, nothing it allocated for its own use is
\* still allocated, whatever the encoder and decoder strategies and the clients'
\* task lists; only the cache clones outlive the call
C13_AggregateLeavesNoStaging ==
  (InSeq("aggregate", obs.trace) /\ pc \in {"rotate", "notify", "done"}) =>
     \A o \in live : o.kind \notin StagingKinds

\* C14: at most one encoder cache and one decoder cache are allocated, each the
\* one the Hyperweight holds; the Hyperweight never holds a released cache (the
\* previous one is released when the new one is installed, and the new one has
\* tensors of its own); the cache a meta-update has read is allocated when it
\* is read
C14_SingleLiveCache ==
  /\ \A o \in live :
        /\ o.kind = "encCache" => (hw.enc /\ hw.cacheEnc.present /\ o.n = hw.cacheEnc.call)
        /\ o.kind = "decCache" => (hw.dec /\ hw.cacheDec.present /\ o.n = hw.cacheDec.call)
  /\ Cardinality({o \in live : o.kind = "encCache"}) <= 1
  /\ Cardinality({o \in live : o.kind = "decCache"}) <= 1
  /\ hw.cacheEnc.present => Obj("encCache", hw.cacheEnc.call) \in live
  /\ hw.cacheDec.present => Obj("decCache", hw.cacheDec.call) \in live
  /\ (pc = "aggregate" /\ obs.readEnc.present) => Obj("encCache", obs.readEnc.call) \in live
  /\ (pc = "aggregate" /\ obs.readDec.present) => Obj("decCache", obs.readDec.call) \in live

\* both caches have been replaced by a later aggregate() after a meta-update
\* read them
C14_Witness ==
  /\ obs.readEnc.present /\ obs.readDec.present
  /\ hw.cacheEnc.present /\ hw.cacheEnc.call > obs.readEnc.call
  /\ hw.cacheDec.present /\ hw.cacheDec.call > obs.readDec.call
  /\ Obj("encCache", obs.readEnc.call) \notin live
  /\ Obj("decCache", obs.readDec.call) \notin live

\* C15: whenever aggregate() has returned normally, every client's model has been
\* reloaded from its aggregated checkpoint: with encoderAgg fedavg or
\* conflict_averse every client's encoder holds the aggregated value, for every
\* decoder strategy and task list, a list with no decoder block included
C15_AggregateAlwaysLoads ==
  (InSeq("aggregate", obs.trace) /\ pc = "rotate") =>
     /\ obs.loaded = Clients
     /\ \A c \in Clients :
          /\ model[c] = loadCheckpoint(sv.save.maps[c], sv.upd[c])
          /\ sv.aEnc = "fedavg" => model[c].enc.src = "fedavg"
          /\ sv.aEnc = "conflict_averse" => model[c].enc.src \in {"ca_hyper", "ca_global"}

\* ----------------------------------------------------------------- round counter and callback
\* C16: round is advanced before the onAggregated callback runs, so a step()
\* whose callback throws exits with the checkpoints rotated and round advanced
C16_RoundAdvancedBeforeCallback ==
  (pc = "threw" /\ obs.failedAt = "notify") =>
     (InSeq("rotate", obs.trace) /\ round = obs.entryRound + 1)

\* ----------------------------------------------------------------- values of alpha, beta and the parameters
InUnitRange(x) == 0 <= x /\ x <= AlphaOne

\* C17: every stored alpha[i] (the encoder policy's variable and the copy the
\* server exposes) and every stored beta_layer[k] lies in [0,1]
C17_StoredHyperweightsInUnitRange ==
  /\ \A i \in DOMAIN num.alpha : InUnitRange(num.alpha[i])
  /\ \A i \in DOMAIN num.srvAlpha : InUnitRange(num.srvAlpha[i])
  /\ \A k \in DOMAIN num.beta : InUnitRange(num.beta[k])
  /\ \A k \in DOMAIN num.srvBeta : InUnitRange(num.srvBeta[k])

\* C18: with encoderAgg = fedavg and decoderAgg = none, after the aggregation of
\* one step every client holds the same encoder parameters, equal to the mean
\* over the clients of the post-training encoder parameters, and every client's
\* decoder parameters are the ones its training produced
C18_FedavgEncoderIsMean ==
  (num.op = "aggregated" /\ num.ea = "fedavg" /\ num.da = "none") =>
     /\ \A c \in Clients :
          /\ num.model[c].enc = num.model[1].enc
          /\ Cardinality(Clients) * num.model[c].enc.n
               = SumSeq([d \in Clients |-> num.cur[d].enc]) * num.model[c].enc.d
          /\ \A t \in Tasks : InSeq(t, tasks[c]) =>
               RatEq(num.model[c].dec[t], Rat(num.cur[c].dec[t], 1))

\* fedavg / none has run on clients whose trained encoders differ, and the
\* mean differs from either of them
C18_Witness ==
  /\ num.op = "aggregated" /\ num.ea = "fedavg" /\ num.da = "none"
  /\ \E c \in Clients : ~RatEq(num.model[c].enc, Rat(num.cur[c].enc, 1))
  /\ \E c \in Clients : num.cur[c].enc # num.cur[1].enc
  /\ \E c \in Clients : num.cur[c].dec["A"] # num.last[c].dec["A"]

\* every client enables task A
AllEnableA == \A c \in Clients : InSeq("A", tasks[c])

\* the values decoder fedavg averages: every block of every client and task
AllBlockValues ==
  LET blocks == DecoderBlocks(tasks)
  IN [k \in 1..Len(blocks) |-> num.cur[blocks[k].clientIdx].dec[blocks[k].task]]

\* C19 as stated: when every client enables task A and decoderAgg = fedavg, the
\* task-A decoder parameters of all clients are identical and equal the average
\* of the clients' pre-aggregation task-A decoder parameters, whatever other
\* tasks the clients enable
C19_TaskADecoderIsTaskAMean ==
  (num.op = "aggregated" /\ num.da = "fedavg" /\ AllEnableA) =>
     \A c \in Clients :
        /\ num.model[c].dec["A"] = num.model[1].dec["A"]
        /\ Cardinality(Clients) * num.model[c].dec["A"].n
             = SumSeq([d \in Clients |-> num.cur[d].dec["A"]]) * num.model[c].dec["A"].d

\* C19, amended: with decoderAgg = fedavg every decoder block of every client
\* and task is set to the mean over all blocks of all tasks; the task-A
\* parameters are therefore identical, and equal the task-A average when no
\* client enables another task
C19_FedavgDecoderIsMeanOfAllBlocks ==
  (num.op = "aggregated" /\ num.da = "fedavg") =>
     /\ \A c \in Clients : \A t \in Tasks : InSeq(t, tasks[c]) =>
          /\ num.model[c].dec[t] = num.model[1].dec["A"]
          /\ Len(AllBlockValues) * num.model[c].dec[t].n
               = SumSeq(AllBlockValues) * num.model[c].dec[t].d
     /\ (AllEnableA /\ NumBlocks(tasks) = Cardinality(Clients)) =>
          \A c \in Clients :
             Cardinality(Clients) * num.model[c].dec["A"].n
               = SumSeq([d \in Clients |-> num.cur[d].dec["A"]]) * num.model[c].dec["A"].d

\* decoder fedavg has run where one client also enables task B, and the task-A
\* decoders ended away from the task-A average
C19_Witness ==
  /\ num.op = "aggregated" /\ num.da = "fedavg" /\ AllEnableA
  /\ \E c \in Clients : InSeq("B", tasks[c])
  /\ Cardinality(Clients) * num.model[1].dec["A"].n
       # SumSeq([d \in Clients |-> num.cur[d].dec["A"]]) * num.model[1].dec["A"].d

AllBetaZero == \A k \in DOMAIN num.beta : num.beta[k] = 0

\* C20 as stated: with every beta at 0, the value cross-attention aggregation
\* produces for a block and writes back is that block's 'last' value
C20_ZeroBetaOutputIsLast ==
  (num.op = "aggregated" /\ num.da = "cross_attention" /\ AllBetaZero) =>
     \A c \in Clients : \A t \in Tasks : InSeq(t, tasks[c]) =>
        RatEq(num.model[c].dec[t], Rat(num.last[c].dec[t], 1))

\* C20, amended: with every beta at 0, cross-attention aggregation leaves every
\* decoder block at its post-training value, that is 'last' plus the block's
\* own delta; the attention output has no effect
C20_ZeroBetaKeepsTrainedValue ==
  (num.op = "aggregated" /\ num.da = "cross_attention" /\ AllBetaZero) =>
     \A c \in Clients : \A t \in Tasks : InSeq(t, tasks[c]) =>
        RatEq(num.model[c].dec[t], Rat(num.cur[c].dec[t], 1))

\* cross-attention has run with every beta at 0 on blocks that training moved
\* away from 'last', with a non-zero attention output
C20_Witness ==
  /\ num.op = "aggregated" /\ num.da = "cross_attention" /\ AllBetaZero
  /\ NumBlocks(tasks) > Cardinality(Clients)
  /\ \A c \in Clients : \A t \in Tasks : InSeq(t, tasks[c]) =>
        ~RatEq(num.model[c].dec[t], Rat(num.last[c].dec[t], 1))

\* ----------------------------------------------------------------- meta-update differences
\* C21: in a meta-update the difference used for client i's encoder is the
\* previous 'last' value minus this round's 'current' value, the sign
\* convention of the decoder's per-block difference
C21_EncoderDiffIsLastMinusCurrent ==
  num.op = "meta" =>
     /\ \A c \in Clients : num.encDiff[c] = num.last[c].enc - num.cur[c].enc
     /\ \A k \in DOMAIN num.decDiff :
          LET b == DecoderBlocks(tasks)[k]
          IN num.decDiff[k] = num.last[b.clientIdx].dec[b.task] - num.cur[b.clientIdx].dec[b.task]

\* ----------------------------------------------------------------- utility functions
\* the clients of a list that share client i's signature
SameSignature(sigs, i) == {j \in 1..Len(sigs) : sigs[j] = sigs[i]}

RECURSIVE SumOver(_, _)
SumOver(f, S) == IF S = {} THEN 0 ELSE LET x == CHOOSE y \in S : TRUE
                                       IN f[x] + SumOver(f, S \ {x})

C23_CanonicalKeyIdempotent ==
  num.op = "canonicalKey" => num.twice = num.out

\* the points of the probability simplex on the grid of the model
SimplexPoints(n) == {w \in [1..n -> 0..VecOne] : SumSeq(w) = VecOne}

Dist2(a, b) == SumSeq([i \in 1..Len(a) |-> (a[i] - b[i]) * (a[i] - b[i])])

\* C24: projectToSimplex(v) has no negative component, its components sum to 1,
\* and no point of the simplex is nearer to v
C24_ProjectionOntoSimplex ==
  num.op = "project" =>
     /\ \A i \in 1..Len(num.out) : num.out[i] >= 0
     /\ SumSeq(num.out) = VecOne
     /\ \A w \in SimplexPoints(Len(num.v)) : Dist2(num.out, num.v) <= Dist2(w, num.v)

\* a vector outside the simplex whose projection drops one component and keeps
\* two
C24_Witness ==
  /\ num.op = "project"
  /\ Len(num.v) = 3
  /\ \E i \in 1..3 : num.v[i] < 0
  /\ Cardinality({i \in 1..3 : num.out[i] = 0}) = 1
  /\ SumSeq(num.v) > VecOne

\* C25: the key set of pick(m, keys) is exactly the requested keys present in m;
\* a requested key missing from m has no entry in the result
C25_PickOmitsMissingKeys ==
  num.op = "pick" => DOMAIN num.out = num.keys \cap DOMAIN num.m

\* C26: throughout solveSimplexProjectedGD the vector b of the linear term
\* <w, A b> is the uniform vector (1/n, ..., 1/n): accepting an iterate changes
\* x only
C26_LinearTermUsesUniformB ==
  num.op = "solve" => num.heap[num.b] = UniformVec(Len(num.A))

\* C27: solveSimplexProjectedGD ends after at most maxIters iterations, a
\* rejected step counting as one, and the value of the objective
\* <w, A b> + c sqrt(w'Aw + eps), b uniform, does not go up from one accepted
\* iterate to the next
SolverObjective(x) == objCA(num.A, UniformVec(Len(num.A)), num.c, x)
C28_IsTrainingOnlyWhileStepping == pc = "idle" => ~drv.isTraining

\* C29: whatever play(), pause(), playOrPause() and setDriver() calls are
\* made, at most one driver.step() is in flight; a step is started only by the
\* timer of the latest play(), with no pause() since; and no step is started
\* between a driver.step() that returned false and the next play()
C29_OneStepInFlight ==
  /\ Len(drv.inflight) <= 1
  /\ \A i \in 1..Len(drv.inflight) :
       /\ drv.inflight[i].timer = drv.inflight[i].index
       /\ ~drv.inflight[i].halted
C29_Witness ==
  /\ Len(drv.inflight) = 1
  /\ drv.falses > 0
  /\ drv.inflight[1].driver # drv.driver
  /\ \E l \in drv.timers : l > drv.inflight[1].timer

\* C30: the experiments run in list order, one at a time; an experiment is
\* started from 'Not started', a completed experiment has logged exactly
\* plan.rounds rounds, and the experiments before the one in progress are
\* completed; once the last experiment has completed or one has failed, a
\* step() returns false at once
C30_ExperimentsRunInOrder ==
  /\ \A e \in Experiments :
       /\ drv.experiments[e].status = "Completed" =>
            drv.experiments[e].logged = drv.experiments[e].rounds
       /\ drv.experiments[e].status \in {"In progress", "Completed", "Failed"} =>
            drv.experiments[e].from = "Not started"
       /\ drv.experiments[e].status = "In progress" =>
            \A f \in Experiments :
               /\ f < e => drv.experiments[f].status = "Completed"
               /\ f > e => drv.experiments[f].status = "Not started"
  /\ drv.calledOver => (drv.call = "none" /\ drv.ret = "false")

====
